---- MODULE Spec2Model ----
(***************************************************************************)
(* Model of the SYNOID transcription wrappers:                             *)
(*   tools/transcribe.py          the file-writing variant ("tool")        *)
(*   scripts/transcribe_bridge.py the stdout-JSON variant ("bridge")       *)
(* One run of one script is one behaviour.  The external world (torch's    *)
(* CUDA probe, whisper's load_model/transcribe, the file system) answers   *)
(* each call nondeterministically; what it answered is recorded so that    *)
(* the properties can refer to it.                                         *)
(*                                                                         *)
(* Strings of the transcript are sequences of Unicode code points, and     *)
(* timestamps are integers (ticks); the code never computes with either.   *)
(* An argument vector is described by what the scripts read from it:       *)
(* whether the required arguments are there (has_arg), whether -h/--help   *)
(* is among them (help, tool only), --force-cpu and --save-txt.            *)
(***************************************************************************)
EXTENDS Integers, Sequences, FiniteSets, TLC

VARIABLES variant, force_cpu, save_txt, has_arg, help, input_exists,
          pc, probe, device, loads, infers, result, segments,
          writes, stdout, stderr, exit_code

vars == <<variant, force_cpu, save_txt, has_arg, help, input_exists,
          pc, probe, device, loads, infers, result, segments,
          writes, stdout, stderr, exit_code>>

(***************************************************************************)
(* Bounds of the model.                                                    *)
(***************************************************************************)
MaxSegs == 2    \* segments in one model result
MaxLen == 3     \* characters in one segment text
MaxMajor == 12  \* largest compute-capability major the probe reports

(***************************************************************************)
(* Value domains.                                                          *)
(***************************************************************************)
\* Code points: 32 is the space, 97 the letter a.
Chars == {32, 97}
\* str.strip() with no argument removes the characters for which
\* str.isspace() holds: \t \n \v \f \r, U+001C..U+001F, the space, U+0085,
\* U+00A0, U+1680, U+2000..U+200A, U+2028, U+2029, U+202F, U+205F, U+3000.
Whitespace == (9..13) \cup (28..32) \cup {133, 160, 5760} \cup (8192..8202)
              \cup {8232, 8233, 8239, 8287, 12288}

RECURSIVE SeqsUpTo(_, _)
SeqsUpTo(S, n) ==
    IF n = 0 THEN {<<>>}
    ELSE LET shorter == SeqsUpTo(S, n - 1)
         IN  shorter \cup {Append(s, x) : s \in shorter, x \in S}

\* Texts whose whitespace is not the plain space: vertical tab and U+001C
\* at the ends, U+00A0 and U+2003 at the ends, U+0085 between two letters.
ExoticTexts == {<<11, 97, 28>>, <<160, 97, 8195>>, <<97, 133, 97>>}
Texts == SeqsUpTo(Chars, MaxLen) \cup ExoticTexts
TimePairs == {<<0, 1>>, <<1, 2>>}
RawSegments == {[start |-> tp[1], end |-> tp[2], text |-> t] :
                    tp \in TimePairs, t \in Texts}

\* What model.transcribe may return: a dict with "text", "segments", "language".
AllResults == {[text |-> <<32, 97, 32>>, segments |-> ss, language |-> "en"] :
                    ss \in SeqsUpTo(RawSegments, MaxSegs)}

\* The results used when the whole run is explored: segment lists over two
\* sample segments, both of which need trimming.
SampleSegments == {[start |-> 0, end |-> 1, text |-> <<32, 97, 32>>],
                   [start |-> 1, end |-> 2, text |-> <<160, 97, 11>>]}
ModelResults == {[text |-> t, segments |-> ss, language |-> "en"] :
                    t \in {<<32, 97, 32>>},
                    ss \in SeqsUpTo(SampleSegments, MaxSegs)}

\* What the CUDA probe answers: torch.cuda.is_available() and
\* torch.cuda.get_device_properties(0), each of which may raise.
\* avail is "yes", "no" or "raise"; props either raises or carries the
\* device's major and minor compute capability.
Capabilities == {[raises |-> FALSE, major |-> ma, minor |-> mi] :
                    ma \in 11..MaxMajor, mi \in {0, 9}}
PropsError == [raises |-> TRUE, major |-> 0, minor |-> 0]
Probes == [avail : {"yes", "no", "raise"}, props : Capabilities \cup {PropsError}]

NoProbe == [avail |-> "uncalled", props |-> PropsError]
NoResult == [text |-> <<>>, segments |-> <<>>, language |-> "none"]

(***************************************************************************)
(* tools/transcribe.py: get_safe_device                                    *)
(***************************************************************************)
Sm120 == 120

compute_cap(props) == props.major * 10 + props.minor

\* Variation: the force_cpu override is not consulted.
get_safe_device_NoForce(force, p) ==
    IF p.avail = "raise"
    THEN [ret |-> "none", diag |-> <<>>, raised |-> TRUE]
    ELSE IF p.avail = "no"
    THEN [ret |-> "cpu", diag |-> <<>>, raised |-> FALSE]
    ELSE IF p.props.raises
    THEN [ret |-> "cpu", diag |-> <<"gpu_detection_failed">>, raised |-> FALSE]
    ELSE [ret |-> "cuda", diag |-> <<>>, raised |-> FALSE]

\* Returns the device, the diagnostics printed to stderr, and whether an
\* exception left the function.
get_safe_device(force, p) ==
    IF force
    THEN [ret |-> "cpu", diag |-> <<>>, raised |-> FALSE]
    ELSE IF p.avail = "raise"
    THEN [ret |-> "none", diag |-> <<>>, raised |-> TRUE]
    ELSE IF p.avail = "no"
    THEN [ret |-> "cpu", diag |-> <<>>, raised |-> FALSE]
    ELSE IF p.props.raises
    THEN [ret |-> "cpu", diag |-> <<"gpu_detection_failed">>, raised |-> FALSE]
    ELSE IF compute_cap(p.props) >= Sm120
    THEN [ret |-> "cuda", diag |-> <<"info_attempting_cuda">>, raised |-> FALSE]
    ELSE [ret |-> "cuda", diag |-> <<>>, raised |-> FALSE]

(***************************************************************************)
(* str.strip(): skip whitespace from the left, then from the right.        *)
(***************************************************************************)
RECURSIVE LeftIndex(_, _)
LeftIndex(s, i) ==
    IF i <= Len(s) /\ s[i] \in Whitespace THEN LeftIndex(s, i + 1) ELSE i

RECURSIVE RightIndex(_, _, _)
RightIndex(s, i, j) ==
    IF j >= i /\ s[j] \in Whitespace THEN RightIndex(s, i, j - 1) ELSE j

\* Variation: only the left end is trimmed (lstrip).
strip_LeftOnly(s) == SubSeq(s, LeftIndex(s, 1), Len(s))

strip(s) ==
    LET i == LeftIndex(s, 1)
        j == RightIndex(s, i, Len(s))
    IN  SubSeq(s, i, j)

\* The loop / comprehension that builds the output segment list.
NormalizeSegments(segs) ==
    [k \in 1..Len(segs) |->
        [start |-> segs[k].start, end |-> segs[k].end, text |-> strip(segs[k].text)]]

(***************************************************************************)
(* Process exit.                                                           *)
(***************************************************************************)
\* exit_code is -1 while the process runs.
Exit(code) ==
    /\ exit_code' = code
    /\ pc' = "done"

\* An exception nobody catches: the interpreter prints a traceback and the
\* process ends with status 1.
Uncaught ==
    /\ stderr' = Append(stderr, "traceback")
    /\ Exit(1)

Args == <<variant, force_cpu, save_txt, has_arg, help, input_exists>>

Init ==
    /\ variant \in {"tool", "bridge"}
    /\ force_cpu \in (IF variant = "tool" THEN BOOLEAN ELSE {FALSE})
    /\ save_txt \in (IF variant = "tool" THEN BOOLEAN ELSE {FALSE})
    /\ has_arg \in BOOLEAN
    /\ help \in (IF variant = "tool" THEN BOOLEAN ELSE {FALSE})
    /\ input_exists \in BOOLEAN
    /\ pc = (IF variant = "tool" THEN "t_import" ELSE "b_import")
    /\ probe = NoProbe
    /\ device = "none"
    /\ loads = <<>>
    /\ infers = <<>>
    /\ result = NoResult
    /\ segments = <<>>
    /\ writes = <<>>
    /\ stdout = <<>>
    /\ stderr = <<>>
    /\ exit_code = -1

(***************************************************************************)
(* tools/transcribe.py: main                                               *)
(***************************************************************************)
\* Module level: import torch.  An exception there is caught by nobody.
ToolImport ==
    /\ variant = "tool" /\ pc = "t_import"
    /\ \/ /\ pc' = "parse"
          /\ UNCHANGED <<stderr, exit_code>>
       \/ Uncaught
    /\ UNCHANGED <<Args, probe, device, loads, infers, result, segments,
                   writes, stdout>>

\* Text that is not a JSON document on the script's stdout.
NonJson(what) == [nonjson |-> what]

\* parser.parse_args(): -h/--help prints the help text on stdout and exits
\* with status 0 as soon as it is met, whether or not the required arguments
\* are there; otherwise --input and --output are required, and argparse
\* prints the usage on stderr and exits with status 2 when one is missing.
ParseArgs ==
    /\ variant = "tool" /\ pc = "parse"
    /\ IF help
       THEN /\ stdout' = Append(stdout, NonJson("help"))
            /\ Exit(0)
            /\ UNCHANGED stderr
       ELSE IF ~has_arg
       THEN /\ stderr' = Append(stderr, "usage")
            /\ Exit(2)
            /\ UNCHANGED stdout
       ELSE /\ pc' = "start"
            /\ UNCHANGED <<stdout, stderr, exit_code>>
    /\ UNCHANGED <<Args, probe, device, loads, infers, result, segments,
                   writes>>

\* Variation: the existence check is skipped.
CheckInput_NoCheck ==
    /\ variant = "tool" /\ pc = "start"
    /\ pc' = "select"
    /\ UNCHANGED <<Args, probe, device, loads, infers, result, segments,
                   writes, stdout, stderr, exit_code>>

CheckInput ==
    /\ variant = "tool" /\ pc = "start"
    /\ IF ~input_exists
       THEN /\ stderr' = Append(stderr, "input_not_found")
            /\ Exit(1)
       ELSE /\ pc' = "select"
            /\ UNCHANGED <<stderr, exit_code>>
    /\ UNCHANGED <<Args, probe, device, loads, infers, result, segments,
                   writes, stdout>>

SelectDevice ==
    /\ variant = "tool" /\ pc = "select"
    /\ \E p \in Probes :
        LET r == get_safe_device(force_cpu, p)
        IN  /\ probe' = p
            /\ IF r.raised
               THEN /\ stderr' = Append(stderr \o r.diag, "traceback")
                    /\ Exit(1)
                    /\ UNCHANGED device
               ELSE /\ device' = r.ret
                    /\ stderr' = Append(stderr \o r.diag, "loading_model")
                    /\ pc' = "load"
                    /\ UNCHANGED exit_code
    /\ UNCHANGED <<Args, loads, infers, result, segments, writes, stdout>>

\* Variation: the handler prints the message and forgets sys.exit(1).
Handled_NoExit(msg) ==
    /\ stderr' = Append(stderr, msg)
    /\ Exit(0)

\* The except clauses of main: a message on stderr and sys.exit(1).
Handled(msg) ==
    /\ stderr' = Append(stderr, msg)
    /\ Exit(1)

\* The classes of exception the try block of main tells apart.
Exceptions == {"ImportError", "Exception"}

\* An exception raised inside the try block: the handler is chosen by the
\* class of the exception, whichever statement raised it.
Raise(exc) ==
    IF exc = "ImportError"
    THEN Handled("whisper_not_installed")
    ELSE Handled("error_during_transcription")

LoadModel ==
    /\ variant = "tool" /\ pc = "load"
    /\ \/ \E exc \in Exceptions :          \* import whisper raises
            /\ Raise(exc)
            /\ UNCHANGED loads
       \/ /\ loads' = Append(loads, [device |-> device, ok |-> TRUE])
          /\ stderr' = Append(stderr, "transcribing")
          /\ pc' = "transcribe"
          /\ UNCHANGED exit_code
       \/ \E exc \in Exceptions :          \* whisper.load_model raises
            /\ loads' = Append(loads, [device |-> device, ok |-> FALSE])
            /\ Raise(exc)
    /\ UNCHANGED <<Args, probe, device, infers, result, segments, writes, stdout>>

\* Variation: a failed inference sends the run back to load the model again.
Transcribe_RetryOnFailure ==
    /\ variant = "tool" /\ pc = "transcribe"
    /\ \/ \E r \in ModelResults :
            /\ result' = r
            /\ infers' = Append(infers, TRUE)
            /\ pc' = "normalize"
       \/ /\ infers' = Append(infers, FALSE)
          /\ pc' = "load"
          /\ UNCHANGED result
    /\ UNCHANGED <<Args, probe, device, loads, segments, writes, stdout,
                   stderr, exit_code>>

Transcribe ==
    /\ variant = "tool" /\ pc = "transcribe"
    /\ \/ \E r \in ModelResults :
            /\ result' = r
            /\ infers' = Append(infers, TRUE)
            /\ pc' = "normalize"
            /\ UNCHANGED <<stderr, exit_code>>
       \/ \E exc \in Exceptions :
            /\ infers' = Append(infers, FALSE)
            /\ Raise(exc)
            /\ UNCHANGED result
    /\ UNCHANGED <<Args, probe, device, loads, segments, writes, stdout>>

Normalize ==
    /\ variant = "tool" /\ pc = "normalize"
    /\ segments' = NormalizeSegments(result.segments)
    /\ pc' = "save_json"
    /\ UNCHANGED <<Args, probe, device, loads, infers, result, writes,
                   stdout, stderr, exit_code>>

\* The last statement of the try block, and falling off the end of main.
Complete ==
    /\ stderr' = Append(stderr, "transcription_complete")
    /\ Exit(0)

SaveJson ==
    /\ variant = "tool" /\ pc = "save_json"
    /\ \E ok \in BOOLEAN :
        /\ writes' = Append(writes, [path |-> "output", ok |-> ok,
                                     content |-> IF ok THEN segments ELSE <<>>])
        /\ IF ~ok
           THEN \E exc \in Exceptions : Raise(exc)
           ELSE IF save_txt
           THEN /\ pc' = "save_txt"
                /\ UNCHANGED <<stderr, exit_code>>
           ELSE Complete
    /\ UNCHANGED <<Args, probe, device, loads, infers, result, segments, stdout>>

SaveTxt ==
    /\ variant = "tool" /\ pc = "save_txt"
    /\ \E ok \in BOOLEAN :
        /\ writes' = Append(writes, [path |-> "save_txt", ok |-> ok,
                                     content |-> IF ok THEN strip(result.text) ELSE <<>>])
        /\ IF ~ok
           THEN \E exc \in Exceptions : Raise(exc)
           ELSE Complete
    /\ UNCHANGED <<Args, probe, device, loads, infers, result, segments, stdout>>

(***************************************************************************)
(* scripts/transcribe_bridge.py                                            *)
(***************************************************************************)
ErrorDoc(msg) == [error |-> msg]

\* Module level: import whisper.  An ImportError starts install_whisper, any
\* other exception is caught by nobody.
BridgeImport ==
    /\ variant = "bridge" /\ pc = "b_import"
    /\ \/ /\ pc' = "b_main"
          /\ UNCHANGED <<stderr, exit_code>>
       \/ /\ stderr' = Append(stderr, "installing_whisper")
          /\ pc' = "b_pip"
          /\ UNCHANGED exit_code
       \/ Uncaught
    /\ UNCHANGED <<Args, probe, device, loads, infers, result, segments,
                   writes, stdout>>

\* install_whisper: subprocess.check_call runs pip, which inherits the
\* script's stdout and stderr and may write on either; a non-zero status of
\* pip raises CalledProcessError, caught by nobody.
BridgePip ==
    /\ variant = "bridge" /\ pc = "b_pip"
    /\ \E out \in BOOLEAN, err \in BOOLEAN, ok \in BOOLEAN :
        LET pip_err == IF err THEN Append(stderr, "pip_output") ELSE stderr
        IN  /\ stdout' = IF out THEN Append(stdout, NonJson("pip_output")) ELSE stdout
            /\ IF ok
               THEN /\ stderr' = pip_err
                    /\ pc' = "b_reimport"
                    /\ UNCHANGED exit_code
               ELSE /\ stderr' = Append(pip_err, "traceback")
                    /\ Exit(1)
    /\ UNCHANGED <<Args, probe, device, loads, infers, result, segments, writes>>

\* The second import whisper, outside any try.
BridgeReimport ==
    /\ variant = "bridge" /\ pc = "b_reimport"
    /\ \/ /\ pc' = "b_main"
          /\ UNCHANGED <<stderr, exit_code>>
       \/ Uncaught
    /\ UNCHANGED <<Args, probe, device, loads, infers, result, segments,
                   writes, stdout>>

BridgeMain ==
    /\ variant = "bridge" /\ pc = "b_main"
    /\ IF ~has_arg
       THEN /\ stdout' = Append(stdout, ErrorDoc("usage"))
            /\ Exit(1)
       ELSE /\ pc' = "b_check"
            /\ UNCHANGED <<stdout, exit_code>>
    /\ UNCHANGED <<Args, probe, device, loads, infers, result, segments,
                   writes, stderr>>

BridgeCheckInput ==
    /\ variant = "bridge" /\ pc = "b_check"
    /\ IF ~input_exists
       THEN /\ stdout' = Append(stdout, ErrorDoc("file_not_found"))
            /\ Exit(0)
            /\ UNCHANGED stderr
       ELSE /\ stderr' = Append(stderr, "loading_model")
            /\ pc' = "b_load"
            /\ UNCHANGED <<stdout, exit_code>>
    /\ UNCHANGED <<Args, probe, device, loads, infers, result, segments, writes>>

\* whisper.load_model("base"): no device argument, whisper picks its default.
BridgeLoad ==
    /\ variant = "bridge" /\ pc = "b_load"
    /\ \E ok \in BOOLEAN :
        /\ loads' = Append(loads, [device |-> "default", ok |-> ok])
        /\ IF ok
           THEN /\ stderr' = Append(stderr, "transcribing")
                /\ pc' = "b_transcribe"
                /\ UNCHANGED exit_code
           ELSE Uncaught
    /\ UNCHANGED <<Args, probe, device, infers, result, segments, writes, stdout>>

BridgeTranscribe ==
    /\ variant = "bridge" /\ pc = "b_transcribe"
    /\ \/ \E r \in ModelResults :
            /\ result' = r
            /\ infers' = Append(infers, TRUE)
            /\ pc' = "b_format"
            /\ UNCHANGED <<stderr, exit_code>>
       \/ /\ infers' = Append(infers, FALSE)
          /\ Uncaught
          /\ UNCHANGED result
    /\ UNCHANGED <<Args, probe, device, loads, segments, writes, stdout>>

BridgeFormat ==
    /\ variant = "bridge" /\ pc = "b_format"
    /\ segments' = NormalizeSegments(result.segments)
    /\ stdout' = Append(stdout, [text |-> result.text,
                                 segments |-> segments',
                                 language |-> result.language])
    /\ Exit(0)
    /\ UNCHANGED <<Args, probe, device, loads, infers, result, writes, stderr>>

Next ==
    \/ ToolImport
    \/ ParseArgs
    \/ CheckInput
    \/ SelectDevice
    \/ LoadModel
    \/ Transcribe
    \/ Normalize
    \/ SaveJson
    \/ SaveTxt
    \/ BridgeImport
    \/ BridgePip
    \/ BridgeReimport
    \/ BridgeMain
    \/ BridgeCheckInput
    \/ BridgeLoad
    \/ BridgeTranscribe
    \/ BridgeFormat

Spec == Init /\ [][Next]_vars

(***************************************************************************)
(* Normalization on its own: the run has just received a model result,     *)
(* drawn from the full bounded domain, and builds the segment list.        *)
(***************************************************************************)
InitNorm ==
    /\ variant \in {"tool", "bridge"}
    /\ force_cpu = FALSE
    /\ save_txt = FALSE
    /\ has_arg = TRUE
    /\ help = FALSE
    /\ input_exists = TRUE
    /\ pc = (IF variant = "tool" THEN "normalize" ELSE "b_format")
    /\ probe = (IF variant = "tool" THEN [avail |-> "no", props |-> PropsError] ELSE NoProbe)
    /\ device = (IF variant = "tool" THEN "cpu" ELSE "none")
    /\ loads = <<[device |-> IF variant = "tool" THEN "cpu" ELSE "default", ok |-> TRUE]>>
    /\ infers = <<TRUE>>
    /\ result \in AllResults
    /\ segments = <<>>
    /\ writes = <<>>
    /\ stdout = <<>>
    /\ stderr = <<"loading_model", "transcribing">>
    /\ exit_code = -1

NextNorm ==
    \/ Normalize
    \/ BridgeFormat

SpecNorm == InitNorm /\ [][NextNorm]_vars

(***************************************************************************)
(* Properties.                                                             *)
(***************************************************************************)
Done == pc = "done"
Selected == variant = "tool" /\ probe # NoProbe
Traceback == \E i \in 1..Len(stderr) : stderr[i] = "traceback"
Printed(msg) == \E i \in 1..Len(stderr) : stderr[i] = msg
HasErrorDoc == \E i \in 1..Len(stdout) : "error" \in DOMAIN stdout[i]
WriteAttempted(path) == \E i \in 1..Len(writes) : writes[i].path = path
WriteSucceeded(path) == \E i \in 1..Len(writes) : writes[i].path = path /\ writes[i].ok
WriteFailed(path) == \E i \in 1..Len(writes) : writes[i].path = path /\ ~writes[i].ok
LoadSucceeded == loads # <<>> /\ loads[Len(loads)].ok
InferenceFailed == \E i \in 1..Len(infers) : ~infers[i]
\* The bridge never got past its imports (a load failure leaves a load).
ImportFailed == variant = "bridge" /\ Traceback /\ loads = <<>>

\* C1: when the probe reports an accelerator whose compute capability is
\* >= 120 and force_cpu is false, get_safe_device returns "cpu" and prints
\* a diagnostic.
C1_UnsupportedCapabilityFallsBack ==
    (Selected /\ ~force_cpu /\ probe.avail = "yes" /\ ~probe.props.raises
        /\ compute_cap(probe.props) >= Sm120)
    => (device = "cpu"
        /\ (Printed("info_attempting_cuda") \/ Printed("gpu_detection_failed")))

\* C2: when the first load, on "cuda", fails, the run makes exactly one more
\* load attempt, on "cpu", before it ends; it ends in failure only if that
\* second load fails too.
C2_LoadFailureRetriesOnFallback ==
    (variant = "tool" /\ Done /\ loads # <<>>
        /\ loads[1].device = "cuda" /\ ~loads[1].ok)
    => (Len(loads) = 2 /\ loads[2].device = "cpu")

\* C3: every bridge run that meets an internal error (missing argument,
\* missing file, model-load failure, inference failure) ends with exit
\* status 0 and a JSON document with an "error" key on stdout.
BridgeInternalError ==
    \/ ~has_arg
    \/ ~input_exists
    \/ (loads # <<>> /\ ~LoadSucceeded)
    \/ InferenceFailed

C3_BridgeAlwaysExitsZero ==
    (variant = "bridge" /\ Done /\ ~ImportFailed /\ BridgeInternalError)
    => (exit_code = 0 /\ HasErrorDoc)

\* C4: when a text path is given and the JSON write failed, the text write
\* is still attempted before the run ends.
C4_WritesIndependent ==
    (variant = "tool" /\ Done /\ save_txt /\ WriteFailed("output"))
    => WriteAttempted("save_txt")

\* C5: whenever a probe query raises (is_available or
\* get_device_properties), get_safe_device returns "cpu" and no exception
\* leaves it.
C5_ProbeErrorAbsorbed ==
    (Selected /\ (probe.avail = "raise" \/ probe.props.raises))
    => (device = "cpu" /\ ~Traceback)

\* C6: on a missing input no model load and no inference is ever attempted,
\* in either script, and a run that got as far as the existence check
\* (imports done, arguments given, no help request) ends with the input-not-found report
\* (exit 1 and the message on stderr in the tool, the "File not found" JSON
\* document in the bridge).
C6_MissingInputNoLoad ==
    ~input_exists
    => /\ loads = <<>>
       /\ infers = <<>>
       /\ (variant = "tool" /\ Done /\ has_arg /\ ~help /\ ~Traceback)
            => (exit_code = 1 /\ stderr = <<"input_not_found">>)
       /\ (variant = "bridge" /\ Done /\ has_arg /\ ~ImportFailed)
            => (exit_code = 0 /\ stdout # <<>>
                /\ stdout[Len(stdout)] = ErrorDoc("file_not_found"))

C6_Witness ==
    /\ variant = "tool" /\ ~input_exists /\ Done
    /\ Printed("input_not_found")

\* C7: with force_cpu the selected device is "cpu" whatever the probe would
\* answer (no exception leaves the selection), and every model load is made
\* on "cpu".
C7_ForceCpuAlwaysFallback ==
    (Selected /\ force_cpu)
    => /\ device = "cpu"
       /\ ~Traceback
       /\ \A i \in 1..Len(loads) : loads[i].device = "cpu"

C7_Witness ==
    /\ Selected /\ force_cpu
    /\ probe.avail = "raise"
    /\ Len(loads) = 1 /\ loads[1].device = "cpu"

\* What "text with leading and trailing whitespace removed" means: t is the
\* slice of s between its first and its last non-whitespace character.
IsTrimOf(t, s) ==
    \E i \in 1..(Len(s) + 1), j \in 0..Len(s) :
        /\ t = SubSeq(s, i, j)
        /\ \A k \in 1..(i - 1) : s[k] \in Whitespace
        /\ \A k \in (j + 1)..Len(s) : s[k] \in Whitespace
        /\ t # <<>> => (t[1] \notin Whitespace /\ t[Len(t)] \notin Whitespace)

Normalized == (variant = "tool" /\ pc = "save_json") \/ (variant = "bridge" /\ Done)

\* C8: the normalized segment list has the length and order of the model's
\* list; segment k keeps the start and end of the model's segment k and
\* carries its text with leading and trailing whitespace removed.  The
\* bridge prints exactly that list.
C8_NormalizationPreservesSegments ==
    Normalized
    => /\ Len(segments) = Len(result.segments)
       /\ \A k \in 1..Len(segments) :
            /\ segments[k].start = result.segments[k].start
            /\ segments[k].end = result.segments[k].end
            /\ IsTrimOf(segments[k].text, result.segments[k].text)
       /\ variant = "bridge" => stdout[Len(stdout)].segments = segments

C8_Witness ==
    /\ Normalized /\ variant = "tool"
    /\ Len(segments) = 2
    /\ result.segments[1].text = <<11, 97, 28>>
    /\ segments[1].text = <<97>>
    /\ result.segments[2].text = <<32, 97, 32>>
    /\ segments[1].start > segments[2].start

ToolSucceeded ==
    /\ input_exists
    /\ LoadSucceeded
    /\ infers = <<TRUE>>
    /\ WriteSucceeded("output")
    /\ save_txt => WriteSucceeded("save_txt")

ToolFailed ==
    \/ ~input_exists
    \/ ~LoadSucceeded
    \/ infers # <<TRUE>>
    \/ ~WriteSucceeded("output")
    \/ (save_txt /\ ~WriteSucceeded("save_txt"))

\* C9 as stated: every run of the tool exits 0 exactly when the input
\* existed, the model loaded, inference succeeded and every requested write
\* succeeded; a missing input, a load, inference or write failure each end
\* the run with a non-zero status.
C9_ExitZeroIffSuccess ==
    (variant = "tool" /\ Done)
    => /\ exit_code = 0 <=> ToolSucceeded
       /\ ToolFailed => exit_code # 0

\* C9 as amended: every run of the tool that is not a -h/--help request
\* exits 0 exactly when the input existed, the model loaded, inference
\* succeeded and every requested write succeeded, and with a non-zero status
\* otherwise.
C9_ExitZeroIffSuccessUnlessHelp ==
    (variant = "tool" /\ Done /\ ~help)
    => /\ exit_code = 0 <=> ToolSucceeded
       /\ ToolFailed => exit_code # 0

C9_Witness ==
    /\ variant = "tool" /\ Done /\ ~help /\ exit_code = 1
    /\ WriteSucceeded("output") /\ WriteFailed("save_txt")

\* C10: inference is attempted at most once and there is at most one retry
\* (at most two model loads); once an inference has failed the run is over,
\* in failure, with that single inference and a single load behind it.
C10_NoRetryAfterInferenceFailure ==
    /\ Len(infers) <= 1
    /\ Len(loads) <= 2
    /\ InferenceFailed => (Done /\ exit_code # 0 /\ exit_code # -1
                            /\ Len(infers) = 1 /\ Len(loads) = 1)

C10_Witness ==
    /\ variant = "tool" /\ InferenceFailed /\ Done
    /\ Printed("error_during_transcription")

====
